---- MODULE Spec2Model ----
(***************************************************************************)
(* A model of the two scripts of the repository:                           *)
(*   update_categories.py           load_merchant_mapping, main and        *)
(*                                  update_csv_categories                  *)
(*   generate_mock_transactions.py  generate_transactions                  *)
(* Text is a sequence of one-character strings, so that strip(), lower()   *)
(* and startswith() are computed character by character.  Money is an      *)
(* integer number of thousandths of a currency unit, so that round(x, 2)   *)
(* has something to round.                                                 *)
(***************************************************************************)
EXTENDS Integers, Sequences, FiniteSets

VARIABLES
    \* ---- update_categories.py ----
    pc,             \* position of the updater script
    mapping,        \* the dict built by load_merchant_mapping, in insertion order
    nread,          \* rows of the mapping file read so far
    accepted,       \* history: mapping rows that passed `if merchant and category`
    reported,       \* the number main prints as "Loaded N merchant mappings"
    file,           \* the transaction file on disk: header and raw rows
    orig,           \* history: the file as it was when the current call began
    fieldnames,     \* reader.fieldnames of the current call
    rows,           \* the list `rows` of the current call
    updated_count,  \* the counter of the current call
    ri,             \* next raw row the reader yields
    wi,             \* next element of `rows` the writer writes
    opened,         \* history: the current call opened the file with mode 'w'
    ret,            \* value returned by the current call, NoReturn before that
    call,           \* which call of update_csv_categories on this file this is
    prev,           \* history: how the call before this one ended
    \* ---- generate_mock_transactions.py ----
    gpc,            \* position of generate_transactions
    num_transactions,
    initial_balance,
    current_balance,
    transactions,   \* the list that is returned
    candidates      \* history: per iteration, what was drawn before the guard

uvars == <<pc, mapping, nread, accepted, reported, file, orig, fieldnames, rows,
           updated_count, ri, wi, opened, ret, call, prev>>
gvars == <<gpc, num_transactions, initial_balance, current_balance, transactions,
           candidates>>
vars == <<pc, mapping, nread, accepted, reported, file, orig, fieldnames, rows,
          updated_count, ri, wi, opened, ret, call, prev,
          gpc, num_transactions, initial_balance, current_balance, transactions,
          candidates>>

\* ---------------------------------------------------------------- bounds
MaxMapRows == 2
MaxRows == 2
MaxCalls == 2
MaxTransactions == 2

\* ------------------------------------------------------------------ text
Uncategorized == <<"U","n","c","a","t","e","g","o","r","i","z","e","d">>
\* Python's None, as a value no text is equal to
None == <<"None">>
NoReturn == 0 - 1

Whitespace == {" ", "\t", "\n", "\r"}
UpperCase == <<"A","B","C","D","E","F","G","H","I","J","K","L","M",
               "N","O","P","Q","R","S","T","U","V","W","X","Y","Z">>
LowerCase == <<"a","b","c","d","e","f","g","h","i","j","k","l","m",
               "n","o","p","q","r","s","t","u","v","w","x","y","z">>

\* The lowercase letter of each uppercase letter
LowerTable ==
    [ c \in { UpperCase[i] : i \in 1..Len(UpperCase) } |->
        LowerCase[CHOOSE i \in 1..Len(UpperCase) : UpperCase[i] = c] ]

LowerChar(c) == IF c \in DOMAIN LowerTable THEN LowerTable[c] ELSE c

lower(s) == [i \in 1..Len(s) |-> LowerChar(s[i])]

RECURSIVE lstrip(_)
lstrip(s) == IF s # <<>> /\ Head(s) \in Whitespace THEN lstrip(Tail(s)) ELSE s

RECURSIVE rstrip(_)
rstrip(s) ==
    IF s # <<>> /\ s[Len(s)] \in Whitespace
    THEN rstrip(SubSeq(s, 1, Len(s) - 1))
    ELSE s

strip(s) == rstrip(lstrip(s))

startswith(s, prefix) ==
    /\ Len(prefix) <= Len(s)
    /\ SubSeq(s, 1, Len(prefix)) = prefix

\* ------------------------------------------------- the dict `mapping`
\* A Python dict keeps insertion order; assigning to a key it holds
\* replaces the value and keeps the key's place.
MapHas(m, k) == \E i \in 1..Len(m) : m[i].key = k

MapGet(m, k) == m[CHOOSE i \in 1..Len(m) : m[i].key = k].value

MapSet(m, k, v) ==
    IF MapHas(m, k)
    THEN [i \in 1..Len(m) |-> IF m[i].key = k THEN [key |-> k, value |-> v] ELSE m[i]]
    ELSE Append(m, [key |-> k, value |-> v])

\* lines 22-23
StoreMerchant(m, merchant, category) ==
    MapSet(MapSet(m, merchant, category), lower(merchant), category)

\* ------------------------------------------------------------- inputs
\* Rows the mapping file may hold (Merchant, Category), as written in it.
MappingRows ==
    { [Merchant |-> <<"A","b">>,     Category |-> <<"X">>],
      [Merchant |-> <<"a","b">>,     Category |-> <<" ","Y">>],
      [Merchant |-> <<"A"," ">>,     Category |-> <<"Y">>],
      [Merchant |-> <<"A","b">>,     Category |-> Uncategorized],
      [Merchant |-> <<" ">>,         Category |-> <<"X">>],
      [Merchant |-> <<"A","b">>,     Category |-> <<>>] }

\* Raw rows the transaction file may hold under the header.
FileRows ==
    { << <<"A","b">>,         Uncategorized,                      <<"1">> >>,
      << <<"A","B">>,         Uncategorized,                      <<"1">> >>,
      << <<" ","A","B","c">>, <<" ">> \o Uncategorized \o <<" ">>, <<"1">> >>,
      << <<"z">>,             Uncategorized,                      <<"1">> >>,
      << <<"A","b">>,         <<"X">>,                            <<"1">> >>,
      << <<" ">>,             Uncategorized,                      <<"1">> >>,
      << <<"A","b">>,         Uncategorized >>,
      << <<"A","b">> >>,
      << <<"A","b">>,         Uncategorized,                      <<"1">>, <<"9">> >>,
      << >> }

Headers ==
    { <<"description", "category", "amount">>,
      <<"description", "amount">> }

SeqsUpTo(S, n) == UNION { [1..k -> S] : k \in 0..n }

Files == { [fieldnames |-> h, rows |-> r] : h \in Headers, r \in SeqsUpTo(FileRows, MaxRows) }

EmptyFile == [fieldnames |-> <<>>, rows |-> <<>>]

\* --------------------------------------------------- load_merchant_mapping
\* lines 17-23: one row of the mapping file
LoadRow ==
    /\ pc = "load"
    /\ nread < MaxMapRows
    /\ \E row \in MappingRows :
         LET merchant == strip(row.Merchant)
             category == strip(row.Category)
         IN  IF merchant # <<>> /\ category # <<>>
             THEN /\ mapping' = StoreMerchant(mapping, merchant, category)
                  /\ accepted' = accepted + 1
             ELSE UNCHANGED <<mapping, accepted>>
    /\ nread' = nread + 1
    /\ UNCHANGED <<pc, reported, file, orig, fieldnames, rows, updated_count,
                   ri, wi, opened, ret, call, prev>>
    /\ UNCHANGED gvars

\* line 82
ReportedCount(m) == Len(m) \div 2

\* lines 24, 81-82, 88-89: the mapping is returned, main prints its count and
\* calls update_csv_categories, which reads the header (line 37)
EndLoad ==
    /\ pc = "load"
    /\ reported' = ReportedCount(mapping)
    /\ pc' = "read"
    /\ call' = 1
    /\ fieldnames' = file.fieldnames
    /\ UNCHANGED <<mapping, nread, accepted, file, orig, rows, updated_count,
                   ri, wi, opened, ret, prev>>
    /\ UNCHANGED gvars

\* --------------------------------------------------- update_csv_categories
Range(s) == { s[i] : i \in 1..Len(s) }

\* csv.DictReader: the row as a dict over the header's names; a name the row
\* is too short for gets None, fields beyond the header go under the key None
DictRow(fn, raw) ==
    [ vals |-> [ name \in Range(fn) |->
                   LET i == CHOOSE k \in 1..Len(fn) : fn[k] = name
                   IN  IF i <= Len(raw) THEN raw[i] ELSE None ],
      rest |-> IF Len(raw) > Len(fn) THEN SubSeq(raw, Len(fn) + 1, Len(raw)) ELSE <<>> ]

\* row.get(name, '')
get(row, name) == IF name \in DOMAIN row.vals THEN row.vals[name] ELSE <<>>

\* line 44 without the comparison with 'Uncategorized'
ShouldUpdateAnyCategory(current_category, description) == description # <<>>

\* line 44
ShouldUpdate(current_category, description) ==
    current_category = Uncategorized /\ description # <<>>

\* lines 55-59: index of the first item of mapping.items(), from i on, whose
\* lowercased key the lowercased description starts with; 0 when there is none
RECURSIVE PartialMatch(_, _, _)
PartialMatch(m, description, i) ==
    IF i > Len(m) THEN 0
    ELSE IF startswith(lower(description), lower(m[i].key)) THEN i
    ELSE PartialMatch(m, description, i + 1)

NoMatch == [found |-> FALSE, category |-> <<>>]

\* lines 46-59 without the elif of lines 50-52
ResolveWithoutLowercase(m, description) ==
    IF MapHas(m, description)
    THEN [found |-> TRUE, category |-> MapGet(m, description)]
    ELSE LET i == PartialMatch(m, description, 1)
         IN  IF i = 0 THEN NoMatch ELSE [found |-> TRUE, category |-> m[i].value]

\* lines 46-59
Resolve(m, description) ==
    IF MapHas(m, description)
    THEN [found |-> TRUE, category |-> MapGet(m, description)]
    ELSE IF MapHas(m, lower(description))
    THEN [found |-> TRUE, category |-> MapGet(m, lower(description))]
    ELSE LET i == PartialMatch(m, description, 1)
         IN  IF i = 0 THEN NoMatch ELSE [found |-> TRUE, category |-> m[i].value]

\* lines 47, 51, 57 with the assignment lost (made to a copy of the row)
UpdatedRowNotStored(row, category) == row

\* lines 47, 51, 57: row['category'] = ...
UpdatedRow(row, category) == [row EXCEPT !.vals["category"] = category]

\* lines 39-61: one row of the reader.  csv.DictReader skips a blank line;
\* .strip() on None raises AttributeError
ReadRow ==
    /\ pc = "read"
    /\ ri <= Len(file.rows)
    /\ LET raw == file.rows[ri]
           row == DictRow(fieldnames, raw)
       IN  IF raw = <<>>
           THEN UNCHANGED <<pc, rows, updated_count>>
           ELSE IF get(row, "description") = None \/ get(row, "category") = None
           THEN /\ pc' = "raised_read"
                /\ UNCHANGED <<rows, updated_count>>
           ELSE LET description == strip(get(row, "description"))
                    current_category == strip(get(row, "category"))
                    res == Resolve(mapping, description)
                IN  /\ pc' = pc
                    /\ IF ShouldUpdate(current_category, description) /\ res.found
                       THEN /\ rows' = Append(rows, UpdatedRow(row, res.category))
                            /\ updated_count' = updated_count + 1
                       ELSE /\ rows' = Append(rows, row)
                            /\ updated_count' = updated_count
    /\ ri' = ri + 1
    /\ UNCHANGED <<mapping, nread, accepted, reported, file, orig, fieldnames,
                   wi, opened, ret, call, prev>>
    /\ UNCHANGED gvars

\* line 64 with >= for >
ShouldWriteAlways(count) == count >= 0

\* line 64
ShouldWrite(count) == count > 0

\* line 65 with a mode that does not empty the file
TruncateKeepsContents(f) == f

\* line 65: open(csv_file, 'w') empties the file
Truncate(f) == EmptyFile

OpenForWrite ==
    /\ pc = "read"
    /\ ri > Len(file.rows)
    /\ ShouldWrite(updated_count)
    /\ file' = Truncate(file)
    /\ opened' = TRUE
    /\ pc' = "writeheader"
    /\ UNCHANGED <<mapping, nread, accepted, reported, orig, fieldnames, rows,
                   updated_count, ri, wi, ret, call, prev>>
    /\ UNCHANGED gvars

\* lines 64, 70: nothing was updated, the file is not opened again
ReturnNoWrite ==
    /\ pc = "read"
    /\ ri > Len(file.rows)
    /\ ~ShouldWrite(updated_count)
    /\ pc' = "done"
    /\ ret' = updated_count
    /\ UNCHANGED <<mapping, nread, accepted, reported, file, orig, fieldnames,
                   rows, updated_count, ri, wi, opened, call, prev>>
    /\ UNCHANGED gvars

\* line 67
WriteHeader ==
    /\ pc = "writeheader"
    /\ file' = [fieldnames |-> fieldnames, rows |-> <<>>]
    /\ pc' = "writerows"
    /\ wi' = 1
    /\ UNCHANGED <<mapping, nread, accepted, reported, orig, fieldnames, rows,
                   updated_count, ri, opened, ret, call, prev>>
    /\ UNCHANGED gvars

\* csv.DictWriter._dict_to_list: the values in header order; the csv writer
\* writes None as the empty field
DictToList(fn, row) ==
    [ i \in 1..Len(fn) |-> IF row.vals[fn[i]] = None THEN <<>> ELSE row.vals[fn[i]] ]

\* line 68, one row: a dict with a key that is no field name (the key None of
\* a row longer than the header) raises ValueError, after the rows before it
\* were written
WriteRow ==
    /\ pc = "writerows"
    /\ wi <= Len(rows)
    /\ IF rows[wi].rest # <<>>
       THEN /\ pc' = "raised_write"
            /\ UNCHANGED <<file, wi>>
       ELSE /\ file' = [file EXCEPT !.rows = Append(@, DictToList(fieldnames, rows[wi]))]
            /\ wi' = wi + 1
            /\ pc' = pc
    /\ UNCHANGED <<mapping, nread, accepted, reported, orig, fieldnames, rows,
                   updated_count, ri, opened, ret, call, prev>>
    /\ UNCHANGED gvars

\* lines 68-70: all rows written, the file is closed, the count returned
Return ==
    /\ pc = "writerows"
    /\ wi > Len(rows)
    /\ pc' = "done"
    /\ ret' = updated_count
    /\ UNCHANGED <<mapping, nread, accepted, reported, file, orig, fieldnames,
                   rows, updated_count, ri, wi, opened, call, prev>>
    /\ UNCHANGED gvars

\* lines 65-68: the process is stopped (a signal, a full disk) while the file
\* is open for writing
Interrupt ==
    /\ pc \in {"writeheader", "writerows"}
    /\ pc' = "killed"
    /\ UNCHANGED <<mapping, nread, accepted, reported, file, orig, fieldnames,
                   rows, updated_count, ri, wi, opened, ret, call, prev>>
    /\ UNCHANGED gvars

\* lines 27-37 again: the script is run once more, with the same mapping, on
\* the file the call before left behind
CallAgain ==
    /\ pc \in {"done", "raised_read", "raised_write", "killed"}
    /\ call < MaxCalls
    /\ call' = call + 1
    /\ prev' = pc
    /\ pc' = "read"
    /\ orig' = file
    /\ fieldnames' = file.fieldnames
    /\ rows' = <<>>
    /\ updated_count' = 0
    /\ ri' = 1
    /\ wi' = 1
    /\ opened' = FALSE
    /\ ret' = NoReturn
    /\ UNCHANGED <<mapping, nread, accepted, reported, file>>
    /\ UNCHANGED gvars

GenIdle ==
    /\ gpc = "idle"
    /\ num_transactions = 0
    /\ initial_balance = 0
    /\ current_balance = 0
    /\ transactions = <<>>
    /\ candidates = <<>>

InitUpd ==
    /\ pc = "load"
    /\ mapping = <<>>
    /\ nread = 0
    /\ accepted = 0
    /\ reported = NoReturn
    /\ file \in Files
    /\ orig = file
    /\ fieldnames = <<>>
    /\ rows = <<>>
    /\ updated_count = 0
    /\ ri = 1
    /\ wi = 1
    /\ opened = FALSE
    /\ ret = NoReturn
    /\ call = 0
    /\ prev = "none"
    /\ GenIdle

NextUpd ==
    \/ LoadRow
    \/ EndLoad
    \/ ReadRow
    \/ OpenForWrite
    \/ ReturnNoWrite
    \/ WriteHeader
    \/ WriteRow
    \/ Return
    \/ Interrupt
    \/ CallAgain

SpecUpd == InitUpd /\ [][NextUpd]_vars

\* --------------------------------------------------- generate_transactions
\* One currency unit, in the thousandths the amounts are counted in
Unit == 1000

\* round(x, 2) of x thousandths: the nearest hundredth, a tie going to the
\* even one
Round2(x) ==
    LET q == x \div 10
        r == x % 10
    IN  IF r < 5 THEN 10 * q
        ELSE IF r > 5 THEN 10 * (q + 1)
        ELSE IF q % 2 = 0 THEN 10 * q ELSE 10 * (q + 1)

\* lines 56-63: the range random.uniform draws a credit's amount from
CreditRange(category) ==
    CASE category = "DEPOSIT"  -> <<1500 * Unit, 4000 * Unit>>
      [] category = "REFUND"   -> <<10 * Unit, 200 * Unit>>
      [] category = "INTEREST" -> <<Unit \div 2, 15 * Unit>>
      [] OTHER                 -> <<50 * Unit, 500 * Unit>>

\* lines 73-90
DebitRange(category) ==
    CASE category = "GROCERY"      -> <<25 * Unit, 200 * Unit>>
      [] category = "RESTAURANT"   -> <<5 * Unit, 75 * Unit>>
      [] category = "GAS"          -> <<30 * Unit, 80 * Unit>>
      [] category = "UTILITY"      -> <<50 * Unit, 200 * Unit>>
      [] category = "SUBSCRIPTION" -> <<5 * Unit, 25 * Unit>>
      [] category = "SHOPPING"     -> <<20 * Unit, 300 * Unit>>
      [] category = "TRANSFER"     -> <<50 * Unit, 500 * Unit>>
      [] category = "WITHDRAWAL"   -> <<40 * Unit, 300 * Unit>>
      [] OTHER                     -> <<10 * Unit, 100 * Unit>>

\* lines 22-27, 11-21: the categories of TRANSACTION_TEMPLATES
CreditCategories == {"DEPOSIT", "TRANSFER", "REFUND", "INTEREST"}
DebitCategories == {"GROCERY", "RESTAURANT", "GAS", "UTILITY", "SUBSCRIPTION",
                    "SHOPPING", "TRANSFER", "WITHDRAWAL"}

\* line 104
ForcedRange == <<2000 * Unit, 4000 * Unit>>

\* Values random.uniform(lo, hi) is taken to return: two just above lo, which
\* round to lo and to the hundredth above it, and one just below hi
Draws(range) == {range[1] + 4, range[1] + 6, range[2] - 4}

\* line 100 with -5000 for -500
NeedsDepositBelowFiveThousand(is_credit, new_balance) == new_balance < (0 - 5000) * Unit

\* line 100 applied to debits only
NeedsDepositDebitOnly(is_credit, new_balance) ==
    ~is_credit /\ new_balance < (0 - 500) * Unit

\* line 100: the test reads the tentative balance only, whatever was drawn
NeedsDeposit(is_credit, new_balance) == new_balance < (0 - 500) * Unit

\* line 108 adding to the tentative balance
ForcedBalanceFromTentative(balance, new_balance, amount) == Round2(new_balance + amount)

\* line 108
ForcedBalance(balance, new_balance, amount) == Round2(balance + amount)

\* lines 96-120: the rest of an iteration, once the amount is drawn
Emit(is_credit, amount) ==
    LET amount_value == IF is_credit THEN amount ELSE 0 - amount
        new_balance == Round2(current_balance + amount_value)
        drawn == [is_credit |-> is_credit, amount |-> amount,
                  balance |-> current_balance, new_balance |-> new_balance]
    IN  IF NeedsDeposit(is_credit, new_balance)
        THEN \E raw \in Draws(ForcedRange) :
               LET forced == Round2(raw)
                   forced_balance == ForcedBalance(current_balance, new_balance, forced)
               IN  /\ transactions' = Append(transactions,
                          [transaction_type |-> "Credit", amount |-> forced,
                           balance |-> forced_balance])
                   /\ current_balance' = forced_balance
                   /\ candidates' = Append(candidates, drawn)
        ELSE /\ transactions' = Append(transactions,
                    [transaction_type |-> IF is_credit THEN "Credit" ELSE "Debit",
                     amount |-> IF amount_value < 0 THEN 0 - amount_value ELSE amount_value,
                     balance |-> new_balance])
             /\ current_balance' = new_balance
             /\ candidates' = Append(candidates, drawn)

\* lines 47-67 and 96-120: an iteration that draws a credit
CreditIteration ==
    /\ gpc = "loop"
    /\ Len(transactions) < num_transactions
    /\ \E category \in CreditCategories : \E raw \in Draws(CreditRange(category)) :
         Emit(TRUE, Round2(raw))
    /\ UNCHANGED <<gpc, num_transactions, initial_balance>>
    /\ UNCHANGED uvars

\* lines 47-50, 68-94 and 96-120: an iteration that draws a debit
DebitIteration ==
    /\ gpc = "loop"
    /\ Len(transactions) < num_transactions
    /\ \E category \in DebitCategories : \E raw \in Draws(DebitRange(category)) :
         Emit(FALSE, Round2(raw))
    /\ UNCHANGED <<gpc, num_transactions, initial_balance>>
    /\ UNCHANGED uvars

\* line 125
ReturnTransactions ==
    /\ gpc = "loop"
    /\ Len(transactions) = num_transactions
    /\ gpc' = "done"
    /\ UNCHANGED <<num_transactions, initial_balance, current_balance,
                   transactions, candidates>>
    /\ UNCHANGED uvars

\* initial_balance as a caller may pass it: main's 3500.00 (lines 154-176), and
\* balances at, around and below the floor
InitialBalances ==
    { 3500 * Unit, (0 - 400) * Unit, (0 - 2500) * Unit + 4, (0 - 2500) * Unit,
      (0 - 3000) * Unit }

UpdIdle ==
    /\ pc = "idle"
    /\ mapping = <<>>
    /\ nread = 0
    /\ accepted = 0
    /\ reported = NoReturn
    /\ file = EmptyFile
    /\ orig = EmptyFile
    /\ fieldnames = <<>>
    /\ rows = <<>>
    /\ updated_count = 0
    /\ ri = 1
    /\ wi = 1
    /\ opened = FALSE
    /\ ret = NoReturn
    /\ call = 0
    /\ prev = "none"

\* lines 43-45
InitGen ==
    /\ gpc = "loop"
    /\ num_transactions \in 0..MaxTransactions
    /\ initial_balance \in InitialBalances
    /\ current_balance = initial_balance
    /\ transactions = <<>>
    /\ candidates = <<>>
    /\ UpdIdle

NextGen ==
    \/ CreditIteration
    \/ DebitIteration
    \/ ReturnTransactions

SpecGen == InitGen /\ [][NextGen]_vars

\* The two scripts are separate programs: a run is a run of one of them
Init == InitUpd \/ InitGen

Next == NextUpd \/ NextGen

Spec == Init /\ [][Next]_vars

\* ============================================================ properties
\* ------------------------------------------------ generate_transactions
\* The balance before transaction i: initial_balance, or the balance emitted
\* with the transaction before it
BalanceBefore(i) == IF i = 1 THEN initial_balance ELSE transactions[i - 1].balance

\* The amount of an emitted transaction, with the sign of its type
SignedAmount(t) == IF t.transaction_type = "Debit" THEN 0 - t.amount ELSE t.amount

Floor == (0 - 500) * Unit

\* C1: every emitted transaction's balance is round(previous balance + signed
\* amount, 2), the previous balance of the first being initial_balance; the
\* transactions of the forced-credit branch included.
BalanceChain ==
    \A i \in 1..Len(transactions) :
        transactions[i].balance
            = Round2(BalanceBefore(i) + SignedAmount(transactions[i]))

\* A returned sequence whose second transaction came from the forced-credit
\* branch
BalanceChainWitness ==
    /\ gpc = "done"
    /\ Len(transactions) >= 2
    /\ candidates[2].new_balance < Floor
    /\ transactions[2].transaction_type = "Credit"
    /\ transactions[1].transaction_type = "Debit"

\* C2: every emitted Debit has balance >= -500, and a candidate debit whose
\* tentative balance is below -500 is emitted as a Credit with amount in
\* [2000, 4000] and the balance computed from the balance before it.
OverdraftGuard ==
    \A i \in 1..Len(transactions) :
        /\ transactions[i].transaction_type = "Debit"
              => transactions[i].balance >= Floor
        /\ (~candidates[i].is_credit
              /\ Round2(BalanceBefore(i) - candidates[i].amount) < Floor)
              => /\ transactions[i].transaction_type = "Credit"
                 /\ transactions[i].amount >= 2000 * Unit
                 /\ transactions[i].amount <= 4000 * Unit
                 /\ transactions[i].balance
                        = Round2(BalanceBefore(i) + transactions[i].amount)

\* A candidate debit that would have left the balance below -500 and was
\* replaced
OverdraftGuardWitness ==
    \E i \in 1..Len(transactions) :
        /\ ~candidates[i].is_credit
        /\ BalanceBefore(i) >= Floor
        /\ Round2(BalanceBefore(i) - candidates[i].amount) < Floor
        /\ transactions[i].transaction_type = "Credit"
        /\ transactions[i].balance > Floor

\* C9: when initial_balance >= -2500 every emitted transaction has balance
\* >= -500, and a candidate Credit whose tentative balance is below -500 is
\* replaced by the forced credit as well.
BalanceFloor ==
    initial_balance >= (0 - 2500) * Unit =>
        \A i \in 1..Len(transactions) :
            /\ transactions[i].balance >= Floor
            /\ (candidates[i].is_credit
                  /\ Round2(BalanceBefore(i) + candidates[i].amount) < Floor)
                  => /\ transactions[i].transaction_type = "Credit"
                     /\ transactions[i].amount >= 2000 * Unit
                     /\ transactions[i].amount # candidates[i].amount
                     /\ transactions[i].balance
                            = Round2(BalanceBefore(i) + transactions[i].amount)

\* From the lowest admitted initial balance, a candidate credit that is too
\* small was replaced and the balance ends on the floor itself
BalanceFloorWitness ==
    /\ initial_balance = (0 - 2500) * Unit
    /\ Len(transactions) >= 1
    /\ candidates[1].is_credit
    /\ candidates[1].new_balance < Floor
    /\ transactions[1].balance = Floor

\* ------------------------------------------------ update_categories.py
\* The rows the reader yields from a file: its lines that are not blank
NonBlank(rs) == SelectSeq(rs, LAMBDA r : r # <<>>)

\* The j-th row read in the current call, as it stood in the file
InputRow(j) == NonBlank(orig.rows)[j]

\* The text of column `name` in a raw row of the current call's file: empty
\* when the header has no such column or the row ends before it
InputField(raw, name) ==
    LET cols == { k \in 1..Len(orig.fieldnames) : orig.fieldnames[k] = name }
    IN  IF cols = {} THEN <<>>
        ELSE LET k == CHOOSE c \in cols : TRUE
             IN  IF k <= Len(raw) THEN raw[k] ELSE <<>>

IsPrefix(p, s) == Len(p) <= Len(s) /\ \A k \in 1..Len(p) : p[k] = s[k]

\* The row is one the backfiller may touch
Eligible(raw) ==
    /\ strip(InputField(raw, "category")) = Uncategorized
    /\ strip(InputField(raw, "description")) # <<>>

ValuesOf(m, k) == { m[i].value : i \in { n \in 1..Len(m) : m[n].key = k } }

\* The categories the stated resolution order allows for description d: (a)
\* the value under d, else (b) the value under lowercase(d), else (c) the
\* value of the first entry whose lowercased key is a prefix of lowercase(d)
Resolution(m, d) ==
    IF ValuesOf(m, d) # {} THEN ValuesOf(m, d)
    ELSE IF ValuesOf(m, lower(d)) # {} THEN ValuesOf(m, lower(d))
    ELSE LET P == { i \in 1..Len(m) : IsPrefix(lower(m[i].key), lower(d)) }
         IN  IF P = {} THEN {}
             ELSE { m[CHOOSE i \in P : \A k \in P : i <= k].value }

Resolvable(raw) ==
    Eligible(raw) /\ Resolution(mapping, strip(InputField(raw, "description"))) # {}

\* C3: an eligible row gets the category of the first of (a) exact key, (b)
\* lowercased key, (c) first entry in insertion order whose lowercased key is
\* a prefix of the lowercased description; with none of them the row is not
\* changed; the count is the number of eligible rows one of them applies to.
ResolutionOrder ==
    /\ \A j \in 1..Len(rows) :
          LET raw == InputRow(j)
              d == strip(InputField(raw, "description"))
          IN  Eligible(raw) =>
                IF Resolution(mapping, d) = {}
                THEN rows[j] = DictRow(orig.fieldnames, raw)
                ELSE /\ rows[j].vals["category"] \in Resolution(mapping, d)
                     /\ rows[j].vals["description"] = InputField(raw, "description")
    /\ updated_count = Cardinality({ j \in 1..Len(rows) : Resolvable(InputRow(j)) })

\* A row resolved by the prefix rule alone, where two entries with different
\* categories are prefixes and the earlier one won
ResolutionOrderWitness ==
    /\ pc = "done"
    /\ \E j \in 1..Len(rows) :
         LET raw == InputRow(j)
             d == strip(InputField(raw, "description"))
         IN  /\ Eligible(raw)
             /\ ~MapHas(mapping, d)
             /\ ~MapHas(mapping, lower(d))
             /\ \E a, b \in 1..Len(mapping) :
                  /\ a < b
                  /\ IsPrefix(lower(mapping[a].key), lower(d))
                  /\ IsPrefix(lower(mapping[b].key), lower(d))
                  /\ mapping[a].value # mapping[b].value
                  /\ rows[j].vals["category"] = mapping[a].value
             /\ updated_count >= 1

\* C4: a row that is not eligible (trimmed category not "Uncategorized", or
\* trimmed description empty) is kept as read and is not counted, also when
\* its description matches a key; rewritten, it keeps its category.
OnlyUncategorizedTouched ==
    /\ \A j \in 1..Len(rows) :
          ~Eligible(InputRow(j)) =>
              /\ rows[j] = DictRow(orig.fieldnames, InputRow(j))
              /\ (opened /\ pc = "done") =>
                    \A k \in 1..Len(orig.fieldnames) :
                        orig.fieldnames[k] = "category" =>
                            file.rows[j][k] = InputField(InputRow(j), "category")
    /\ updated_count <= Cardinality({ j \in 1..Len(rows) : Eligible(InputRow(j)) })

\* A rewritten file with a row already categorized whose description is a key
\* of the mapping
OnlyUncategorizedTouchedWitness ==
    /\ pc = "done"
    /\ opened
    /\ \E j \in 1..Len(rows) :
          /\ InputField(InputRow(j), "category") = <<"X">>
          /\ MapHas(mapping, strip(InputField(InputRow(j), "description")))
          /\ MapGet(mapping, strip(InputField(InputRow(j), "description"))) # <<"X">>
          /\ file.rows[j][2] = <<"X">>

PastDecision == pc \in {"writeheader", "writerows", "done", "raised_write", "killed"}

\* C5: the file is opened for writing exactly when the count is above 0; with
\* a count of 0 the call returns 0 and the file is as it was.
NoSpuriousWrite ==
    /\ opened => updated_count > 0
    /\ PastDecision => (opened <=> updated_count > 0)
    /\ ~opened => file = orig
    /\ (pc = "done" /\ updated_count = 0) => (ret = 0 /\ file = orig)

\* A call that read an uncategorized row, matched nothing and returned
NoSpuriousWriteWitness ==
    /\ pc = "done"
    /\ call = 1
    /\ ret = 0
    /\ mapping # <<>>
    /\ \E j \in 1..Len(rows) : Eligible(InputRow(j))
    /\ file = orig

\* The rewritten form of the rows read: the header, then every row in order
FullyUpdated ==
    [ fieldnames |-> fieldnames,
      rows |-> [ j \in 1..Len(rows) |-> DictToList(fieldnames, rows[j]) ] ]

\* C6: when at least one row was updated the rewritten file holds every row
\* read, in order and in the header's column order, differing from the input
\* only in the category of the matched rows, and the count returned is the
\* number of rows overwritten.
RewriteKeepsEveryRow ==
    (opened /\ pc \in {"done", "raised_write"}) =>
        /\ file.fieldnames = orig.fieldnames
        /\ Len(file.rows) = Len(NonBlank(orig.rows))
        /\ \A j \in 1..Len(file.rows) : \A k \in 1..Len(orig.fieldnames) :
              \/ file.rows[j][k] = InputField(InputRow(j), orig.fieldnames[k])
              \/ orig.fieldnames[k] = "category" /\ Resolvable(InputRow(j))
        /\ ret = Cardinality({ j \in 1..Len(rows) : Resolvable(InputRow(j)) })

\* C7: the mapping holds two entries per accepted row, and the count main
\* reports is the number of accepted rows.
TwoEntriesPerRow ==
    /\ Len(mapping) = 2 * accepted
    /\ reported # NoReturn => reported = accepted

InRewrite ==
    \/ pc = "writeheader"
    \/ pc = "writerows" /\ wi <= Len(rows)
    \/ pc \in {"raised_write", "killed"} /\ Len(file.rows) < Len(rows)

\* C8: from the opening of the file for writing until the last row is written
\* the file is neither what it was nor the fully updated file, also when the
\* call ends there by an exception or an interruption; and nothing puts the
\* original back.
RewriteNotAtomic ==
    /\ [](InRewrite => (file # orig /\ file # FullyUpdated))
    /\ [][(pc \in {"raised_write", "killed"}) => (file' = file)]_vars

\* The writer raised after writing some rows and before writing all
RewriteNotAtomicWitness ==
    /\ pc = "raised_write"
    /\ Len(file.rows) >= 1
    /\ Len(file.rows) < Len(rows)
    /\ file # orig
    /\ file # FullyUpdated

\* C10 as stated: after one call, a second call with the same mapping returns
\* 0 and leaves the file as it was, for every file and mapping.
SecondCallReturnsZero ==
    (call = 2 /\ prev = "done" /\ pc = "done") => (ret = 0 /\ file = orig)

NoUncategorizedValue == \A i \in 1..Len(mapping) : strip(mapping[i].value) # Uncategorized

\* C10 amended: when no category of the mapping is "Uncategorized", a call
\* after the first does not open the file for writing, leaves it as it was and
\* returns 0 when it returns.
SecondCallIdempotent ==
    (call >= 2 /\ NoUncategorizedValue) =>
        /\ ~opened
        /\ file = orig
        /\ pc = "done" => ret = 0

\* A second call that returned 0 on a file the first call rewrote
SecondCallIdempotentWitness ==
    /\ call = 2
    /\ prev = "done"
    /\ pc = "done"
    /\ ret = 0
    /\ NoUncategorizedValue
    /\ \E j \in 1..Len(rows) :
          /\ get(rows[j], "description") = <<"A","b">>
          /\ get(rows[j], "category") = <<"X">>
    /\ \E j \in 1..Len(rows) : get(rows[j], "category") = <<"Y">>

====
